---- MODULE Spec2Model ----
(***************************************************************************)
(* A model of the JSON Web Token library: sign (src/src/sign.ts 114-330),  *)
(* decode (src/src/decode.ts 6-44, src/src/utils/base64-url-parse.ts       *)
(* 24-101) and verify (src/src/decode.ts 63-193).                          *)
(*                                                                         *)
(* JavaScript values are records whose first field (in name order) is the  *)
(* kind, so that two values of different kinds are told apart on the kind. *)
(* A string is either an atomic string (kind "str") or the JSON text of a  *)
(* value (kind "json"): JSON.stringify builds the latter and JSON.parse    *)
(* accepts only the latter.  An object maps every key of Keys to a value   *)
(* or to Absent (no own property).                                         *)
(***************************************************************************)
EXTENDS Integers, Sequences, FiniteSets, TLC

\* ------------------------------------------------------------------ bounds

\* The clock runs from 1 to MaxNow seconds.
MaxNow == 3

\* An options object of a sign call sets at most MaxOtherOptions keys besides
\* expiresIn and notBefore.
MaxOtherOptions == 2

\* ------------------------------------------------------------ JS values

Val(k, n, s, p) == [kind |-> k, num |-> n, props |-> p, str |-> s]

Absent == Val("absent", 0, "", <<>>)
Undef == Val("undef", 0, "", <<>>)
Null == Val("null", 0, "", <<>>)
NaN == Val("nan", 0, "", <<>>)
Num(i) == Val("num", i, "", <<>>)
Str(s) == Val("str", 0, s, <<>>)
Bool(b) == Val("bool", IF b THEN 1 ELSE 0, "", <<>>)
Obj(p) == Val("obj", 0, "", p)
\* The string that is the JSON serialisation of v.
JsonText(v) == Val("json", 0, "", <<v>>)

\* The property names an object of the model may have.
Keys == {"iat", "exp", "nbf", "aud", "iss", "sub", "jti", "foo", "payload", "alg", "typ"}

EmptyProps == [k \in Keys |-> Absent]
EmptyObj == Obj(EmptyProps)

\* typeof v
TypeOf(v) ==
    CASE v.kind = "undef" -> "undefined"
      [] v.kind \in {"num", "nan"} -> "number"
      [] v.kind \in {"str", "json", "tok"} -> "string"
      [] v.kind = "bool" -> "boolean"
      [] OTHER -> "object"

\* ToBoolean(v): what `!v`, `v && ...` and `v || ...` test.
Truthy(v) ==
    CASE v.kind \in {"undef", "null", "nan", "absent"} -> FALSE
      [] v.kind = "num" -> v.num # 0
      [] v.kind = "str" -> v.str # ""
      [] v.kind = "bool" -> v.num = 1
      [] OTHER -> TRUE

\* o[k] for a value that is not undefined or null: a primitive has no such
\* property.
Get(o, k) ==
    IF o.kind = "obj" /\ o.props[k] # Absent THEN o.props[k] ELSE Undef

\* Own property: Object.keys(o) includes k.
Has(o, k) == o.kind = "obj" /\ o.props[k] # Absent

Put(o, k, v) == Obj([o.props EXCEPT ![k] = v])

Delete(o, k) == IF o.kind = "obj" THEN Obj([o.props EXCEPT ![k] = Absent]) ELSE o

\* Object.assign(target, source): the own properties of source win.
Assign(target, source) ==
    IF source.kind # "obj" THEN target
    ELSE Obj([k \in Keys |-> IF source.props[k] # Absent THEN source.props[k]
                             ELSE target.props[k]])

\* JSON.stringify(v): a property whose value is undefined is left out, NaN
\* becomes null; the result is a string.
RECURSIVE JsonValue(_)
JsonValue(v) ==
    CASE v.kind = "obj" ->
           Obj([k \in Keys |-> IF v.props[k] \in {Absent, Undef} THEN Absent
                               ELSE JsonValue(v.props[k])])
      [] v.kind = "nan" -> Null
      [] OTHER -> v

JsonStringify(v) == JsonText(JsonValue(v))

\* JSON.parse(s): [ok |-> FALSE] stands for the SyntaxError it throws.
JsonParse(s) ==
    IF s.kind = "json" THEN [ok |-> TRUE, val |-> s.props[1]]
    ELSE [ok |-> FALSE, val |-> Undef]

\* ------------------------------------------------------ options and schemas

\* The keys of an options object, in the order Object.keys lists them;
\* "bogus" stands for a key outside the schema.
OptKeys == <<"algorithm", "expiresIn", "notBefore", "audience", "issuer", "subject",
             "jwtid", "noTimestamp", "mutatePayload", "header", "keyid", "bogus">>

OptKeySet == {OptKeys[i] : i \in 1..Len(OptKeys)}

NoOptions == [k \in OptKeySet |-> Absent]

\* The keys of a payload object, in the order Object.keys lists them.
PayloadKeys == <<"foo", "payload", "iat", "exp", "nbf", "aud", "iss", "sub", "jti",
                 "alg", "typ">>

\* typeof options[k] !== 'undefined'
OptSet(options, k) == options[k] \notin {Absent, Undef}

SUPPORTED_ALGS == {"ES256", "ES384", "ES512", "HS256", "HS384", "HS512",
                   "RS256", "RS384", "RS512", "none"}

isString(v) == TypeOf(v) = "string"
isNumber(v) == v.kind = "num"
isBoolean(v) == v.kind = "bool"
isPlainObject(v) == v.kind = "obj"

\* sign_options_schema[key].isValid(value); FALSE also stands for a falsy
\* result (the empty string of `isString(value) && value`).
SignOptionValid(key, value) ==
    CASE key \in {"expiresIn", "notBefore"} ->
           isNumber(value) \/ (isString(value) /\ Truthy(value))
      [] key = "audience" -> isString(value)
      [] key = "algorithm" -> value.kind = "str" /\ value.str \in SUPPORTED_ALGS
      [] key = "header" -> isPlainObject(value)
      [] key \in {"issuer", "subject", "jwtid", "keyid"} -> isString(value)
      [] key \in {"noTimestamp", "mutatePayload"} -> isBoolean(value)
      [] OTHER -> FALSE

SignOptionKnown(key) == key # "bogus"

\* registered_claims_schema
ClaimKnown(key) == key \in {"iat", "exp", "nbf"}

ClaimValid(key, value) == isNumber(value)

\* validate(schema, allowUnknown, object, parameterName): the error thrown at
\* the first offending key, or "none".  schema is "options" or "payload".
RECURSIVE ValidateFrom(_, _, _, _, _)
ValidateFrom(schema, allowUnknown, props, order, i) ==
    IF i > Len(order) THEN "none"
    ELSE LET key == order[i]
             known == IF schema = "options" THEN SignOptionKnown(key) ELSE ClaimKnown(key)
             valid == IF schema = "options" THEN SignOptionValid(key, props[key])
                      ELSE ClaimValid(key, props[key])
         IN  IF props[key] = Absent THEN ValidateFrom(schema, allowUnknown, props, order, i + 1)
             ELSE IF ~known
                  THEN IF ~allowUnknown THEN "unknown key: " \o key
                       ELSE ValidateFrom(schema, allowUnknown, props, order, i + 1)
             ELSE IF ~valid THEN "invalid value: " \o key
             ELSE ValidateFrom(schema, allowUnknown, props, order, i + 1)

validateOptions(options) == ValidateFrom("options", FALSE, options, OptKeys, 1)

validatePayload(payload) ==
    IF ~isPlainObject(payload) THEN "payload is not a plain object"
    ELSE ValidateFrom("payload", TRUE, payload.props, PayloadKeys, 1)

options_to_payload == <<
    [option |-> "audience", claim |-> "aud"],
    [option |-> "issuer", claim |-> "iss"],
    [option |-> "subject", claim |-> "sub"],
    [option |-> "jwtid", claim |-> "jti"] >>

options_for_objects == {"expiresIn", "notBefore", "noTimestamp", "audience", "issuer",
                        "subject", "jwtid"}

\* -------------------------------------------------------------- timespan

\* The timespan parser ms(string): milliseconds, undefined for a string it
\* cannot parse, and an exception for the empty string.
Ms(s) ==
    CASE s.kind = "str" /\ s.str = "2s" -> [thrown |-> FALSE, val |-> Num(2000)]
      [] s.kind = "str" /\ s.str = "1500ms" -> [thrown |-> FALSE, val |-> Num(1500)]
      [] s.kind = "str" /\ s.str = "" -> [thrown |-> TRUE, val |-> Undef]
      [] OTHER -> [thrown |-> FALSE, val |-> Undef]

\* a + b of JavaScript for a number b: a sum of numbers, else a string
\* concatenation.
JsAdd(a, b) ==
    CASE a.kind = "num" /\ b.kind = "num" -> Num(a.num + b.num)
      [] a.kind = "nan" \/ b.kind = "nan" -> NaN
      [] OTHER -> Str("<concatenation>")

\* Math.floor(timestamp + milliseconds / 1000)
FloorAddMs(timestamp, milliseconds) ==
    IF timestamp.kind = "num" THEN Num(timestamp.num + (milliseconds.num \div 1000))
    ELSE NaN

\* timespan(time, iat) at clock t: [thrown, val].
timespan(time, iat, t) ==
    LET timestamp == IF Truthy(iat) THEN iat ELSE Num(t)
    IN  IF TypeOf(time) = "string"
        THEN LET milliseconds == Ms(time)
             IN  IF milliseconds.thrown THEN [thrown |-> TRUE, val |-> Undef]
                 ELSE IF milliseconds.val = Undef THEN [thrown |-> FALSE, val |-> Undef]
                 ELSE [thrown |-> FALSE, val |-> FloorAddMs(timestamp, milliseconds.val)]
        ELSE IF TypeOf(time) = "number"
        THEN [thrown |-> FALSE, val |-> JsAdd(timestamp, time)]
        ELSE [thrown |-> FALSE, val |-> Undef]

\* ------------------------------------------------------------- algorithms

\* The algorithm registry: the names it maps to an import-key specification.
AlgorithmNames == {"ES256", "ES384", "ES512", "HS256", "HS384", "HS512",
                   "RS256", "RS384", "RS512"}

\* algorithms[name]
algorithms(name) ==
    IF name.kind = "str" /\ name.str \in AlgorithmNames
    THEN Val("algorithm", 0, name.str, <<>>)
    ELSE Undef

\* ------------------------------------------------------------------ tokens

\* One dot-separated segment of a token string: lex is its lexical class
\* ("ok": one or more characters of [A-Za-z0-9-_]; "badlen": such characters,
\* of a length that is 1 modulo 4; "illegal": some other character; "empty"),
\* body is the text (or the signature) its base64 decoding gives.
Segment(lex, body) == [lex |-> lex, body |-> body]

\* base64UrlStringify(utf8ToUint8Array(text)), and base64UrlStringify of the
\* bytes of a signature.
base64UrlStringify(body) ==
    IF body = Str("") THEN Segment("empty", body) ELSE Segment("ok", body)

\* A token string: its segments, as token.split('.') gives them.
Token(segments) == Val("tok", 0, "", segments)

\* ---------------------------------------------------- AlgorithmProvider

\* crypto.subtle.sign(algorithm, key, data): the signature is a function of
\* the algorithm, the key material and the signed bytes.
ProviderSign(algorithm, key, data) == Val("sig", 0, algorithm.str, <<key, data>>)

\* crypto.subtle.verify(algorithm, key, signature, data)
ProviderVerify(algorithm, key, signature, data) ==
    signature = ProviderSign(algorithm, key, data)

\* The key format and key data handed to importKey for a secret; usage is
\* "sign" or "verify".
KeyFormat(secret, usage) ==
    IF TypeOf(secret) = "object" THEN "jwk"
    ELSE IF secret.kind = "str" /\ secret.str = "-----BEGIN KEY-----"
    THEN (IF usage = "sign" THEN "pkcs8" ELSE "spki")
    ELSE "raw"

\* ----------------------------------------------------------------- sign

\* The state of the synchronous part of one sign call: the payload variable,
\* the caller's object, whether the payload variable still is the caller's
\* object, the errors handed to failure(), the error thrown ("none": none)
\* and the timestamp.
SignState(c) ==
    [payload |-> c.payload, caller |-> c.payload, aliased |-> TRUE,
     errs |-> <<>>, thrown |-> "none", timestamp |-> Undef]

\* failure(err): with a callback the error is handed to it and the call goes
\* on; without, it is thrown.
SignFailure(st, c, err) ==
    [st EXCEPT !.errs = Append(@, err), !.thrown = IF c.cb THEN @ ELSE err]

\* An exception that is not raised through failure().
SignThrow(st, err) == [st EXCEPT !.thrown = err]

\* payload[k] = v on the payload variable.
SignWrite(st, k, v) ==
    [st EXCEPT !.payload = Put(@, k, v),
               !.caller = IF st.aliased THEN Put(st.payload, k, v) ELSE @]

\* sign.ts 160-163
SignSecretCheck(st, c) ==
    IF st.thrown # "none" THEN st
    ELSE IF ~Truthy(c.secret) /\ c.options["algorithm"] # Str("none")
    THEN SignFailure(st, c, "secretOrPrivateKey must have a value")
    ELSE st

\* The payload variable left to be the caller's object, whatever the options.
SignKeepPayload(st, c) == st

\* Object.assign({}, payload) unless options.mutatePayload (sign.ts 179-182).
SignCopyPayload(st, c) ==
    IF ~Truthy(c.options["mutatePayload"])
    THEN [st EXCEPT !.payload = Assign(EmptyObj, st.payload), !.aliased = FALSE]
    ELSE st

\* sign.ts 165-195
SignPayloadCheck(st, c) ==
    IF st.thrown # "none" THEN st
    ELSE IF TypeOf(st.payload) = "undefined"
    THEN SignFailure(st, c, "payload is required")
    ELSE IF TypeOf(st.payload) = "object"
    THEN LET err == validatePayload(st.payload)
             st1 == IF err # "none" THEN SignFailure(st, c, err) ELSE st
         IN  IF st1.thrown # "none" THEN st1 ELSE SignCopyPayload(st1, c)
    ELSE IF \E opt \in options_for_objects : OptSet(c.options, opt)
    THEN SignFailure(st, c, "invalid option for string payload")
    ELSE st

\* sign.ts 197-205, for (claim, option) = (exp, expiresIn) and (nbf, notBefore).
\* Reading a property of undefined is a TypeError.
SignConflictCheck(st, c, claim, option) ==
    IF st.thrown # "none" THEN st
    ELSE IF st.payload.kind \in {"undef", "null"}
    THEN SignThrow(st, "TypeError: cannot read properties of undefined")
    ELSE IF Get(st.payload, claim) # Undef /\ OptSet(c.options, option)
    THEN SignFailure(st, c, "the payload already has " \o claim)
    ELSE st

\* sign.ts 207-214
SignOptionsCheck(st, c) ==
    IF st.thrown # "none" THEN st
    ELSE LET err == validateOptions(c.options)
         IN  IF err # "none" THEN SignFailure(st, c, err) ELSE st

\* sign.ts 216-225
SignTimestamp(st, c) ==
    IF st.thrown # "none" THEN st
    ELSE LET iat == Get(st.payload, "iat")
             timestamp == IF Truthy(iat) THEN iat ELSE Num(c.now)
             st1 == [st EXCEPT !.timestamp = timestamp]
         IN  IF Truthy(c.options["noTimestamp"])
             THEN IF st1.payload.kind = "obj"
                  THEN [st1 EXCEPT !.payload = Delete(@, "iat"),
                                   !.caller = IF st1.aliased THEN Delete(@, "iat") ELSE @]
                  ELSE st1
             ELSE IF TypeOf(c.payload) = "object" THEN SignWrite(st1, "iat", timestamp)
             ELSE st1

\* sign.ts 227-257, for (claim, option) = (nbf, notBefore) and (exp, expiresIn):
\* the assignment in the try block (creating a property on a string is a
\* TypeError of strict mode, caught there), then the test for undefined.
SignTimespanClaim(st, c, claim, option) ==
    IF st.thrown # "none" THEN st
    ELSE IF ~OptSet(c.options, option) THEN st
    ELSE IF option = "expiresIn" /\ TypeOf(st.payload) # "object" THEN st
    ELSE LET r == timespan(c.options[option], st.timestamp, c.now)
             st1 == IF r.thrown THEN SignFailure(st, c, "ms: invalid value")
                    ELSE IF st.payload.kind # "obj"
                    THEN SignFailure(st, c, "TypeError: cannot create property")
                    ELSE SignWrite(st, claim, r.val)
         IN  IF st1.thrown # "none" THEN st1
             ELSE IF Get(st1.payload, claim) = Undef
             THEN SignFailure(st1, c, "invalid timespan: " \o option)
             ELSE st1

\* sign.ts 259-270: the entries of options_to_payload from the i-th on.
RECURSIVE SignClaimOptions(_, _, _)
SignClaimOptions(st, c, i) ==
    IF i > Len(options_to_payload) \/ st.thrown # "none" THEN st
    ELSE LET key == options_to_payload[i].option
             claim == options_to_payload[i].claim
             st1 == IF ~OptSet(c.options, key) THEN st
                    ELSE IF Get(st.payload, claim) # Undef
                    THEN SignFailure(st, c, "the payload already has " \o claim)
                    ELSE IF st.payload.kind # "obj"
                    THEN SignThrow(st, "TypeError: cannot create property")
                    ELSE SignWrite(st, claim, c.options[key])
         IN  SignClaimOptions(st1, c, i + 1)

\* sign.ts 146-149: Object.assign({alg, typ}, options.header)
SignHeader(c) ==
    LET base == Put(Put(EmptyObj, "alg", c.options["algorithm"]), "typ",
                    IF TypeOf(c.payload) = "object" THEN Str("JWT") ELSE Undef)
    IN  IF OptSet(c.options, "header") THEN Assign(base, c.options["header"]) ELSE base

\* sign.ts 272-277: the header and payload segments.
SignPartialToken(st, c) ==
    << base64UrlStringify(JsonStringify(SignHeader(c))),
       base64UrlStringify(JsonStringify(st.payload)) >>

\* sign.ts 302-307
SignAlgorithmCheck(st, c) ==
    IF st.thrown # "none" THEN st
    ELSE IF algorithms(c.options["algorithm"]) = Undef
    THEN SignFailure(st, c, "algorithm not found")
    ELSE st

\* options = { algorithm: 'HS256', ...options } (sign.ts 142)
SignDefaults(options) ==
    IF options["algorithm"] = Absent THEN [options EXCEPT !["algorithm"] = Str("HS256")]
    ELSE options

\* The i-th statement of the synchronous part of sign.
SignStep(i, st, c) ==
    CASE i = 1 -> SignSecretCheck(st, c)
      [] i = 2 -> SignPayloadCheck(st, c)
      [] i = 3 -> SignConflictCheck(st, c, "exp", "expiresIn")
      [] i = 4 -> SignConflictCheck(st, c, "nbf", "notBefore")
      [] i = 5 -> SignOptionsCheck(st, c)
      [] i = 6 -> SignTimestamp(st, c)
      [] i = 7 -> SignTimespanClaim(st, c, "nbf", "notBefore")
      [] i = 8 -> SignTimespanClaim(st, c, "exp", "expiresIn")
      [] i = 9 -> SignClaimOptions(st, c, 1)
      [] OTHER -> SignAlgorithmCheck(st, c)

\* The statements from the i-th on, each run on the state the one before
\* leaves.
RECURSIVE SignSteps(_, _, _)
SignSteps(i, st, c) ==
    IF i > 10 THEN st
    ELSE CHOOSE r \in {SignSteps(i + 1, SignStep(i, s, c), c) : s \in {st}} : TRUE

\* The synchronous part of sign (sign.ts 132-307), up to the importKey call.
SignSync(c) == SignSteps(1, SignState(c), c)

\* ---------------------------------------------------------------- decode

\* JWS_REGEX.test(token): exactly three segments of [A-Za-z0-9-_], the first
\* two not empty (base64-url-parse.ts 24).
JwsRegexTest(token) ==
    /\ token.kind = "tok"
    /\ Len(token.props) = 3
    /\ token.props[1].lex \in {"ok", "badlen"}
    /\ token.props[2].lex \in {"ok", "badlen"}
    /\ token.props[3].lex \in {"ok", "badlen", "empty"}

\* safeJsonParse(thing) for a string: undefined when JSON.parse throws.
safeJsonParse(thing) ==
    IF JsonParse(thing).ok THEN JsonParse(thing).val ELSE Undef

\* headerFromJWS(jwsSig)
headerFromJWS(token) == safeJsonParse(token.props[1].body)

\* isValidJws(string)
isValidJws(token) == JwsRegexTest(token) /\ Truthy(headerFromJWS(token))

\* A decoded token {header, payload, signature}.
Jwt(header, payload, signature) == Val("jwt", 0, "", <<header, payload, signature>>)

\* jwsDecode(jwsSig, opts): [thrown, val]; thrown is the SyntaxError of
\* JSON.parse on the payload text (base64-url-parse.ts 70-101).
jwsDecode(token, json) ==
    IF ~isValidJws(token) THEN [thrown |-> FALSE, val |-> Null]
    ELSE LET header == headerFromJWS(token)
             text == token.props[2].body
         IN  IF Get(header, "typ") = Str("JWT") \/ Truthy(json)
             THEN IF JsonParse(text).ok
                  THEN [thrown |-> FALSE,
                        val |-> Jwt(header, JsonParse(text).val, token.props[3])]
                  ELSE [thrown |-> TRUE, val |-> Undef]
             ELSE [thrown |-> FALSE, val |-> Jwt(header, text, token.props[3])]

\* decode(token, options): [thrown, val] (decode.ts 6-44).
decode(token, complete, json) ==
    LET decoded == jwsDecode(token, json)
    IN  IF decoded.thrown THEN decoded
        ELSE IF decoded.val = Null THEN [thrown |-> FALSE, val |-> Null]
        ELSE LET raw == decoded.val.props[2]
                 obj == JsonParse(raw)
                 payload == IF TypeOf(raw) = "string" /\ obj.ok /\ obj.val.kind = "obj"
                            THEN obj.val ELSE raw
             IN  IF complete = Bool(TRUE)
                 THEN [thrown |-> FALSE,
                       val |-> Jwt(decoded.val.props[1], payload, decoded.val.props[3])]
                 ELSE [thrown |-> FALSE, val |-> payload]

\* ---------------------------------------------------------------- verify

\* options = { algorithm: 'HS256', throwError: false, ...options }
\* (decode.ts 78)
VerifyDefaults(options) ==
    [algorithm |-> IF options.algorithm = Absent THEN Str("HS256") ELSE options.algorithm,
     throwError |-> IF options.throwError = Absent THEN Bool(FALSE) ELSE options.throwError]

\* The state of the synchronous part of one verify call: the errors handed
\* to failure(), the calls of the callback, the error thrown ("none": none),
\* the value returned (Absent: none yet) and the payload variable.
VerifyState ==
    [errs |-> <<>>, callbacks |-> <<>>, thrown |-> "none", returned |-> Absent,
     payload |-> Undef]

\* Whether the synchronous part has ended.
VerifyEnded(st) == st.thrown # "none" \/ st.returned # Absent

\* failure(err): with a callback, callback(null, err) and the call goes on;
\* without, the error is thrown (decode.ts 80-87).
VerifyFailure(st, c, err) ==
    [st EXCEPT !.errs = Append(@, err),
               !.callbacks = IF c.cb THEN Append(@, [err |-> Null, value |-> Str(err)])
                             ELSE @,
               !.thrown = IF c.cb THEN @ ELSE err]

\* decode.ts 89-102: the types of token, secret and options.algorithm.
VerifyTypeChecks(st, c) ==
    LET s1 == IF TypeOf(c.token) # "string"
              THEN VerifyFailure(st, c, "AuthTokenInvalidError") ELSE st
        s2 == IF VerifyEnded(s1) THEN s1
              ELSE IF TypeOf(c.secret) \notin {"string", "object"}
              THEN VerifyFailure(s1, c, "secret must be a string or a JWK object") ELSE s1
    IN  IF VerifyEnded(s2) THEN s2
        ELSE IF TypeOf(c.options.algorithm) # "string"
        THEN VerifyFailure(s2, c, "options.algorithm must be a string") ELSE s2

\* decode.ts 104-109: token.split('.') is a TypeError for a token that is
\* not a string.
VerifySplit(st, c) ==
    IF VerifyEnded(st) THEN st
    ELSE IF c.token.kind # "tok"
    THEN [st EXCEPT !.thrown = "TypeError: token.split is not a function"]
    ELSE IF Len(c.token.props) # 3
    THEN VerifyFailure(st, c, "token must consist of 3 parts")
    ELSE st

\* The algorithm taken from the alg of the header of the token.
VerifyHeaderAlgorithm(c) ==
    IF c.token.kind = "tok" /\ Len(c.token.props) >= 1
    THEN LET header == headerFromJWS(c.token)
         IN  IF header.kind = "obj" THEN algorithms(Get(header, "alg")) ELSE Undef
    ELSE Undef

\* const algorithm = algorithms[options.algorithm] (decode.ts 111)
VerifyAlgorithm(c) == algorithms(c.options.algorithm)

\* decode.ts 111-116
VerifyAlgorithmCheck(st, c) ==
    IF VerifyEnded(st) THEN st
    ELSE IF VerifyAlgorithm(c) = Undef
    THEN VerifyFailure(st, c, "algorithm not found")
    ELSE st

\* decode.ts 118: const { payload } = decode(token).  decode returns the
\* payload of the token, and the destructuring reads the property "payload"
\* of that: a TypeError when decode returns null, undefined when it returns
\* a string or an object without that property.
VerifyDecode(st, c) ==
    IF VerifyEnded(st) THEN st
    ELSE LET decoded == decode(c.token, Absent, Absent)
         IN  IF decoded.thrown THEN [st EXCEPT !.thrown = "SyntaxError"]
             ELSE IF decoded.val = Null
             THEN [st EXCEPT !.thrown = "TypeError: cannot destructure null"]
             ELSE [st EXCEPT !.payload = Get(decoded.val, "payload")]

\* The shape of decode.ts 120-148: when the test holds, failure(err) under
\* throwError, then return false.
VerifyReject(st, c, test, err) ==
    IF VerifyEnded(st) \/ ~test THEN st
    ELSE LET s1 == IF Truthy(c.options.throwError) THEN VerifyFailure(st, c, err) ELSE st
         IN  IF VerifyEnded(s1) THEN s1 ELSE [s1 EXCEPT !.returned = Bool(FALSE)]

\* payload.nbf && payload.nbf > Math.floor(Date.now() / 1000)
NotYetValid(payload, t) ==
    Truthy(Get(payload, "nbf")) /\ Get(payload, "nbf").kind = "num"
        /\ Get(payload, "nbf").num > t

\* payload.exp && payload.exp <= Math.floor(Date.now() / 1000)
Expired(payload, t) ==
    Truthy(Get(payload, "exp")) /\ Get(payload, "exp").kind = "num"
        /\ Get(payload, "exp").num <= t

\* The i-th statement of the synchronous part of verify.
VerifyStep(i, st, c) ==
    CASE i = 1 -> VerifyTypeChecks(st, c)
      [] i = 2 -> VerifySplit(st, c)
      [] i = 3 -> VerifyAlgorithmCheck(st, c)
      [] i = 4 -> VerifyDecode(st, c)
      [] i = 5 -> VerifyReject(st, c, ~Truthy(st.payload), "ParseError")
      [] i = 6 -> VerifyReject(st, c, NotYetValid(st.payload, c.now), "NotYetValid")
      [] OTHER -> VerifyReject(st, c, Expired(st.payload, c.now), "TokenExpiredError")

\* The statements from the i-th on, each run on the state the one before
\* leaves.
RECURSIVE VerifySteps(_, _, _)
VerifySteps(i, st, c) ==
    IF i > 7 THEN st
    ELSE CHOOSE r \in {VerifySteps(i + 1, VerifyStep(i, s, c), c) : s \in {st}} : TRUE

\* The synchronous part of verify (decode.ts 73-170), up to the importKey call.
VerifySync(c) == VerifySteps(1, VerifyState, c)

\* base64UrlParse(tokenParts[2]): atob throws on a character outside the
\* alphabet and on a length that is 1 modulo 4.
base64UrlParse(segment) ==
    IF segment.lex \in {"ok", "empty"} THEN [thrown |-> FALSE, val |-> segment.body]
    ELSE [thrown |-> TRUE, val |-> Undef]

\* ------------------------------------------------------------- call inputs

\* P(kvs): the object with the properties of the sequence of <<key, value>>.
RECURSIVE PropsOf(_, _)
PropsOf(kvs, i) ==
    IF i > Len(kvs) THEN EmptyProps
    ELSE [PropsOf(kvs, i + 1) EXCEPT ![kvs[i][1]] = kvs[i][2]]

Object(kvs) == Obj(PropsOf(kvs, 1))

\* The payloads of a sign call: objects, a string and undefined.
Payloads ==
    { Object(<< <<"foo", Str("bar")>> >>),
      Object(<< <<"foo", Str("bar")>>, <<"iat", Num(0)>> >>),
      Object(<< <<"iat", Num(2)>> >>),
      Object(<< <<"exp", Num(2)>> >>),
      Object(<< <<"nbf", Num(2)>>, <<"aud", Str("aud0")>> >>),
      Object(<< <<"exp", Str("soon")>> >>),
      Object(<< <<"payload", Object(<< <<"foo", Str("bar")>> >>)>>, <<"exp", Num(2)>> >>),
      Object(<< <<"payload", Object(<< <<"nbf", Num(2)>> >>)>> >>),
      Str("data"),
      Undef }

\* The values an option takes in a sign call.
OptionValues(key) ==
    CASE key = "algorithm" -> {Str("none"), Str("XX")}
      [] key = "expiresIn" -> {Num(2), Str("1500ms"), Str("bad"), Str("")}
      [] key = "notBefore" -> {Num(1), Str("bad")}
      [] key = "audience" -> {Str("aud1")}
      [] key = "issuer" -> {Str("iss1")}
      [] key = "subject" -> {Str("sub1")}
      [] key = "jwtid" -> {Str("jti1")}
      [] key = "noTimestamp" -> {Bool(TRUE), Num(1)}
      [] key = "mutatePayload" -> {Bool(TRUE), Bool(FALSE)}
      [] key = "header" -> {Object(<< <<"alg", Str("XX")>> >>)}
      [] key = "keyid" -> {}
      [] OTHER -> {Num(1)}

\* The option keys other than the two timespans.
OtherOptKeys == SelectSeq(OptKeys, LAMBDA k : k \notin {"expiresIn", "notBefore"})

\* The options objects that set at most n of the keys OtherOptKeys[i],
\* OtherOptKeys[i+1], ...
RECURSIVE OptionsFrom(_, _)
OptionsFrom(i, n) ==
    IF i > Len(OtherOptKeys) \/ n = 0 THEN {NoOptions}
    ELSE OptionsFrom(i + 1, n) \cup
         { [o EXCEPT ![OtherOptKeys[i]] = v] :
             o \in OptionsFrom(i + 1, n - 1), v \in OptionValues(OtherOptKeys[i]) }

\* The options objects of a sign call: any expiresIn and notBefore, set or
\* not, with at most MaxOtherOptions of the other keys.
SignOptions ==
    { [o EXCEPT !["expiresIn"] = e, !["notBefore"] = n] :
        o \in OptionsFrom(1, MaxOtherOptions),
        e \in {Absent} \cup OptionValues("expiresIn"),
        n \in {Absent} \cup OptionValues("notBefore") }

\* sign(P, S) and sign(P, S, {algorithm: A})
AlgorithmOptions == {NoOptions, [NoOptions EXCEPT !["algorithm"] = Str("HS384")]}

\* The segments of hand-made tokens.
HeaderSegment(alg, typ) ==
    base64UrlStringify(JsonStringify(Object(<< <<"alg", alg>>, <<"typ", typ>> >>)))

ClaimsSegment(kvs) == base64UrlStringify(JsonStringify(Object(kvs)))

ForgedSignature == Segment("ok", Str("forged"))

\* Token strings that sign did not make.
CraftedTokens ==
    LET h == HeaderSegment(Str("HS256"), Str("JWT"))
        claims == ClaimsSegment(<< <<"foo", Str("bar")>>, <<"exp", Num(1)>> >>)
        nested == ClaimsSegment(<< <<"payload", Object(<< <<"foo", Str("bar")>> >>)>> >>)
        none == HeaderSegment(Str("none"), Str("JWT"))
    IN  { Token(<<h, claims>>),
          Token(<<h, claims, ForgedSignature, ForgedSignature>>),
          Token(<<Segment("ok", Str("garbage")), claims, ForgedSignature>>),
          Token(<<h, Segment("illegal", Str("garbage")), ForgedSignature>>),
          Token(<<h, Segment("ok", Str("hello")), ForgedSignature>>),
          Token(<<HeaderSegment(Str("HS256"), Undef), Segment("ok", Str("hello")),
                  ForgedSignature>>),
          Token(<<h, claims, Segment("empty", Str(""))>>),
          Token(<<h, nested, Segment("badlen", Str("x"))>>),
          Token(<<h, Segment("ok", JsonText(Null)), ForgedSignature>>),
          Token(<<h, nested, ForgedSignature>>),
          Token(<<HeaderSegment(Str("none"), Str("JWT")), claims, Segment("empty", Str(""))>>),
          Token(<<none, nested, Segment("empty", Str(""))>>),
          Token(<<none, nested,
                  base64UrlStringify(ProviderSign(algorithms(Str("HS384")), Str("secret"),
                                                  <<none, nested>>))>>) }

\* The payload objects two sign calls share.
SharedPayloads ==
    { Object(<< <<"foo", Str("bar")>> >>),
      Object(<< <<"foo", Str("bar")>>, <<"iat", Num(0)>> >>),
      Object(<< <<"payload", Object(<< <<"foo", Str("bar")>> >>)>> >>) }

\* The options object that sets mutatePayload as given and, for each pair
\* <<key, value>> of kvs, the key to the value.
OptionsWith(mutatePayload, kvs) ==
    [k \in OptKeySet |->
        IF k = "mutatePayload" THEN mutatePayload
        ELSE IF \E i \in 1..Len(kvs) : kvs[i][1] = k
        THEN kvs[CHOOSE i \in 1..Len(kvs) : kvs[i][1] = k][2]
        ELSE Absent]

\* The options of the first of two sign calls on one object.
FirstOptions ==
    LET e == <<"expiresIn", Num(2)>>
        a == <<"audience", Str("aud1")>>
        n == <<"notBefore", Num(1)>>
    IN  { OptionsWith(m, kvs) :
            m \in {Absent, Bool(TRUE)},
            kvs \in { <<>>, <<e>>, <<e, a>>, <<e, a, n>> } }

\* The options of the second.
SecondOptions ==
    LET e == <<"expiresIn", Num(1)>>
        a == <<"audience", Str("aud1")>>
        n == <<"notBefore", Num(1)>>
        t == <<"noTimestamp", Bool(TRUE)>>
    IN  { OptionsWith(m, kvs) :
            m \in {Absent, Bool(TRUE)},
            kvs \in { <<>>, <<a>>, <<t>>, <<a, t>>, <<e>>, <<n>>, <<n, a>> } }

\* The options of a verify call.
VerifyOptions ==
    [algorithm : {Absent, Str("HS384"), Str("XX"), Num(1)},
     throwError : {Absent, Bool(TRUE)}]

\* ------------------------------------------------------------------ state

VARIABLES
    now,      \* the clock: Math.floor(Date.now() / 1000)
    caller,   \* the caller's payload object, as the sign call leaves it
    sg,       \* the sign call: its position, inputs, effects and outcome
    sg2,      \* a second sign call, on the same payload object
    vf,       \* the verify call
    dc        \* the decode call

vars == <<now, caller, sg, sg2, vf, dc>>

Pending == [kind |-> "pending", val |-> Undef]
Returned(v) == [kind |-> "return", val |-> v]
Thrown(err) == [kind |-> "throw", val |-> Str(err)]

SignIdle ==
    [pc |-> "idle",
     c |-> [payload |-> Undef, secret |-> Undef, options |-> NoOptions, cb |-> FALSE,
            now |-> 0],
     payload |-> Undef, errs |-> <<>>, callbacks |-> <<>>, provider |-> <<>>,
     partial |-> <<>>, algorithm |-> Undef, outcome |-> Pending]

VerifyIdle ==
    [pc |-> "idle",
     c |-> [token |-> Undef, secret |-> Undef,
            options |-> [algorithm |-> Absent, throwError |-> Absent], cb |-> FALSE,
            now |-> 0],
     payload |-> Undef, errs |-> <<>>, callbacks |-> <<>>, provider |-> <<>>,
     algorithm |-> Undef, outcome |-> Pending]

DecodeIdle ==
    [pc |-> "idle", token |-> Undef, complete |-> Absent, json |-> Absent,
     outcome |-> Pending]

Init ==
    /\ now = 1
    /\ caller = Undef
    /\ sg = SignIdle
    /\ sg2 = SignIdle
    /\ vf = VerifyIdle
    /\ dc = DecodeIdle

\* callback(err) for each error failure() was handed, when there is a
\* callback (sign.ts 151-158).
SignErrorCallbacks(c, errs) ==
    IF c.cb THEN [i \in 1..Len(errs) |-> [err |-> Str(errs[i]), value |-> Undef]]
    ELSE <<>>

\* The sign call with inputs c whose synchronous part ended in st: it has
\* thrown, or is suspended in crypto.subtle.importKey with the partial token
\* built (sign.ts 272-315).
SignSuspended(c, st) ==
    [pc |-> IF st.thrown = "none" THEN "importKey" ELSE "done",
     c |-> c,
     payload |-> st.payload,
     errs |-> st.errs,
     callbacks |-> SignErrorCallbacks(c, st.errs),
     provider |-> <<>>,
     partial |-> IF st.thrown = "none" THEN SignPartialToken(st, c) ELSE <<>>,
     algorithm |-> algorithms(c.options["algorithm"]),
     outcome |-> IF st.thrown = "none" THEN Pending ELSE Thrown(st.thrown)]

\* sign(payload, secret, options[, callback]) up to its first await: the
\* call throws, or is suspended in crypto.subtle.importKey.
SignStart(payload, secret, options, cb) ==
    /\ sg.pc = "idle" /\ vf.pc = "idle" /\ dc.pc = "idle"
    /\ \E c \in {[payload |-> payload, secret |-> secret, options |-> SignDefaults(options),
                  cb |-> cb, now |-> now]} : \E st \in {SignSync(c)} :
        /\ sg' = SignSuspended(c, st)
        /\ caller' = st.caller
        /\ UNCHANGED <<now, sg2, vf, dc>>

\* A sign call with any options object.
SignCall ==
    /\ sg.pc = "idle"
    /\ \E payload \in Payloads, secret \in {Str("secret")},
          options \in SignOptions, cb \in BOOLEAN :
         SignStart(payload, secret, options, cb)

\* A sign call that names at most the algorithm.
SignWithAlgorithm ==
    /\ sg.pc = "idle"
    /\ \E payload \in Payloads, secret \in {Str("secret"), Undef},
          options \in AlgorithmOptions, cb \in BOOLEAN :
         SignStart(payload, secret, options, cb)

\* crypto.subtle.importKey(keyFormat, keyData, algorithm, false, ['sign'])
\* resolves with a key, or rejects: it rejects an undefined algorithm, and
\* may reject any key material (sign.ts 309-315).
SignImportKey ==
    /\ sg.pc = "importKey"
    /\ \E ok \in BOOLEAN :
         /\ sg.algorithm = Undef => ~ok
         /\ sg' = [sg EXCEPT !.pc = IF ok THEN "sign" ELSE "done",
                             !.provider = Append(@, "importKey"),
                             !.outcome = IF ok THEN Pending ELSE Thrown("importKey rejected")]
    /\ UNCHANGED <<now, caller, sg2, vf, dc>>

\* The token of a suspended sign call with the payload segment made, when
\* the signature is there, from the caller's object as it is by then.
SignResultLate(s) ==
    LET payload == IF Truthy(s.c.options["mutatePayload"]) THEN caller ELSE s.payload
        partial == << s.partial[1], base64UrlStringify(JsonStringify(payload)) >>
    IN  Token(partial \o
              << base64UrlStringify(ProviderSign(s.algorithm, s.c.secret, partial)) >>)

\* The token of a suspended sign call (sign.ts 316-322).
SignResult(s) ==
    Token(s.partial \o
          << base64UrlStringify(ProviderSign(s.algorithm, s.c.secret, s.partial)) >>)

\* crypto.subtle.sign resolves: the token is handed to the callback and
\* returned (sign.ts 316-329).
SignFinish ==
    /\ sg.pc = "sign"
    /\ sg' = [sg EXCEPT !.pc = "done",
                        !.provider = Append(@, "sign"),
                        !.callbacks = IF sg.c.cb
                                      THEN Append(@, [err |-> Null, value |-> SignResult(sg)])
                                      ELSE @,
                        !.outcome = Returned(SignResult(sg))]
    /\ UNCHANGED <<now, caller, sg2, vf, dc>>

\* The sign call has returned a token.
Signed == sg.pc = "done" /\ sg.outcome.kind = "return"

\* A second passes between the sign call and what follows.
Tick ==
    /\ Signed /\ vf.pc = "idle" /\ dc.pc = "idle"
    /\ now < MaxNow
    /\ now' = now + 1
    /\ UNCHANGED <<caller, sg, sg2, vf, dc>>

\* decode(token, {complete, json}) (decode.ts 6-44).
DecodeStart(token, complete, json) ==
    /\ dc.pc = "idle" /\ vf.pc = "idle"
    /\ \E r \in {decode(token, complete, json)} :
        /\ dc' = [pc |-> "done", token |-> token, complete |-> complete, json |-> json,
                  outcome |-> IF r.thrown THEN Thrown("SyntaxError") ELSE Returned(r.val)]
        /\ UNCHANGED <<now, caller, sg, sg2, vf>>

\* decode(sign(...))
DecodeSigned == Signed /\ DecodeStart(sg.outcome.val, Absent, Absent)

\* decode of the signed token with options.
DecodeSignedWith ==
    /\ Signed
    /\ \E complete \in {Bool(TRUE)}, json \in {Absent, Bool(TRUE)} :
         DecodeStart(sg.outcome.val, complete, json)

\* decode of a token string that sign did not make.
DecodeCrafted ==
    /\ sg.pc = "idle"
    /\ \E token \in CraftedTokens, complete \in {Absent, Bool(TRUE)},
          json \in {Absent, Bool(TRUE)} :
         DecodeStart(token, complete, json)

\* verify(token, secret, options[, callback]) up to its first await: the
\* call throws, returns false, or is suspended in crypto.subtle.importKey.
VerifyStart(token, secret, options, cb) ==
    /\ vf.pc = "idle" /\ dc.pc = "idle"
    /\ \E c \in {[token |-> token, secret |-> secret, options |-> VerifyDefaults(options),
                  cb |-> cb, now |-> now]} : \E st \in {VerifySync(c)} :
        /\ vf' = [pc |-> IF VerifyEnded(st) THEN "done" ELSE "importKey",
                  c |-> c,
                  payload |-> st.payload,
                  errs |-> st.errs,
                  callbacks |-> st.callbacks,
                  provider |-> <<>>,
                  algorithm |-> VerifyAlgorithm(c),
                  outcome |-> IF st.thrown # "none" THEN Thrown(st.thrown)
                              ELSE IF st.returned # Absent THEN Returned(st.returned)
                              ELSE Pending]
        /\ UNCHANGED <<now, caller, sg, sg2, dc>>

\* verify of the token the sign call returned.
VerifySigned ==
    /\ Signed
    /\ \E secret \in {Str("secret"), Str("other"), Num(5)}, options \in VerifyOptions,
          cb \in BOOLEAN :
         VerifyStart(sg.outcome.val, secret, options, cb)

\* verify of a token that sign did not make, or of a number.
VerifyCrafted ==
    /\ sg.pc = "idle"
    /\ \E token \in CraftedTokens \cup {Num(5)},
          secret \in {Str("secret"), Str("other"), Num(5)}, options \in VerifyOptions,
          cb \in BOOLEAN :
         VerifyStart(token, secret, options, cb)

\* crypto.subtle.importKey(keyFormat, keyData, algorithm, false, ['verify'])
\* resolves or rejects (decode.ts 172-178).
VerifyImportKey ==
    /\ vf.pc = "importKey"
    /\ \E ok \in BOOLEAN :
         /\ vf.algorithm = Undef => ~ok
         /\ vf' = [vf EXCEPT !.pc = IF ok THEN "verify" ELSE "done",
                             !.provider = Append(@, "importKey"),
                             !.outcome = IF ok THEN Pending ELSE Thrown("importKey rejected")]
    /\ UNCHANGED <<now, caller, sg, sg2, dc>>

\* decode.ts 180-192: base64UrlParse of the signature segment may throw;
\* else crypto.subtle.verify resolves, and the payload or false is handed to
\* the callback and returned.
VerifyFinish ==
    /\ vf.pc = "verify"
    /\ LET signature == base64UrlParse(vf.c.token.props[3])
           data == <<vf.c.token.props[1], vf.c.token.props[2]>>
           result == IF ProviderVerify(vf.algorithm, vf.c.secret, signature.val, data)
                     THEN vf.payload ELSE Bool(FALSE)
       IN  IF signature.thrown
           THEN vf' = [vf EXCEPT !.pc = "done",
                                 !.outcome = Thrown("InvalidCharacterError")]
           ELSE vf' = [vf EXCEPT !.pc = "done",
                                 !.provider = Append(@, "verify"),
                                 !.callbacks = IF vf.c.cb
                                               THEN Append(@, [err |-> Null, value |-> result])
                                               ELSE @,
                                 !.outcome = Returned(result)]
    /\ UNCHANGED <<now, caller, sg, sg2, dc>>

\* sign, then decode or verify of its token, and decode or verify of other
\* token strings.
Next ==
    \/ SignWithAlgorithm
    \/ SignImportKey
    \/ SignFinish
    \/ Tick
    \/ DecodeSigned
    \/ DecodeSignedWith
    \/ DecodeCrafted
    \/ VerifySigned
    \/ VerifyCrafted
    \/ VerifyImportKey
    \/ VerifyFinish

Spec == Init /\ [][Next]_vars

\* sign with any options object, then decode of its token.
NextSign ==
    \/ SignCall
    \/ SignImportKey
    \/ SignFinish
    \/ DecodeSigned

SpecSign == Init /\ [][NextSign]_vars

\* The first of two sign calls on one payload object.
SignFirst ==
    /\ sg.pc = "idle"
    /\ \E payload \in SharedPayloads, options \in FirstOptions, cb \in BOOLEAN :
         SignStart(payload, Str("secret"), options, cb)

\* A second sign call on the object the first was handed, while the first is
\* suspended in the provider or after it ended: its synchronous part, up to
\* its first await.
SignSecond ==
    /\ sg.pc # "idle" /\ sg2.pc = "idle" /\ vf.pc = "idle"
    /\ \E options \in SecondOptions, cb \in BOOLEAN :
         \E c \in {[payload |-> caller, secret |-> Str("secret"),
                    options |-> SignDefaults(options), cb |-> cb, now |-> now]} :
         \E st \in {SignSync(c)} :
            /\ sg2' = SignSuspended(c, st)
            /\ caller' = st.caller
            /\ UNCHANGED <<now, sg, vf, dc>>

\* crypto.subtle.importKey resolves or rejects for the second call
\* (sign.ts 309-315).
SignSecondImportKey ==
    /\ sg2.pc = "importKey"
    /\ \E ok \in BOOLEAN :
         /\ sg2.algorithm = Undef => ~ok
         /\ sg2' = [sg2 EXCEPT !.pc = IF ok THEN "sign" ELSE "done",
                               !.provider = Append(@, "importKey"),
                               !.outcome = IF ok THEN Pending
                                           ELSE Thrown("importKey rejected")]
    /\ UNCHANGED <<now, caller, sg, vf, dc>>

\* crypto.subtle.sign resolves for the second call (sign.ts 316-329).
SignSecondFinish ==
    /\ sg2.pc = "sign"
    /\ sg2' = [sg2 EXCEPT !.pc = "done",
                          !.provider = Append(@, "sign"),
                          !.callbacks = IF sg2.c.cb
                                        THEN Append(@, [err |-> Null,
                                                        value |-> SignResult(sg2)])
                                        ELSE @,
                          !.outcome = Returned(SignResult(sg2))]
    /\ UNCHANGED <<now, caller, sg, vf, dc>>

\* A second passes after the first call returned its token and before the
\* second call.
Later ==
    /\ Signed /\ sg2.pc = "idle" /\ vf.pc = "idle"
    /\ now < MaxNow
    /\ now' = now + 1
    /\ UNCHANGED <<caller, sg, sg2, vf, dc>>

\* verify of the token of the first call while the second call is suspended
\* in the provider.
VerifyDuringSign ==
    /\ Signed /\ sg2.pc \in {"importKey", "sign"}
    /\ VerifyStart(sg.outcome.val, Str("secret"),
                   [algorithm |-> Absent, throwError |-> Absent], FALSE)

\* Two sign calls on one payload object, and a verify call, the provider
\* calls of which resolve in any order.
NextShared ==
    \/ SignFirst
    \/ SignImportKey
    \/ SignFinish
    \/ Later
    \/ SignSecond
    \/ SignSecondImportKey
    \/ SignSecondFinish
    \/ VerifyDuringSign
    \/ VerifyImportKey
    \/ VerifyFinish

SpecShared == Init /\ [][NextShared]_vars


\* ------------------------------------------------------------------ claims

\* The claims object in the payload segment of the token the sign call built.
TokenClaims == JsonParse(sg.partial[2].body).val

\* What decode gives for the token handed to the verify call.
VerifyDecoded == decode(vf.c.token, Absent, Absent)

\* The verify call is on the token the sign call returned, for an object
\* payload and with no failure reported by sign.
VerifyOfSigned ==
    /\ Signed /\ sg.errs = <<>> /\ sg.c.payload.kind = "obj"
    /\ vf.pc = "done" /\ vf.c.token = sg.outcome.val

\* C1: verify of a token that sign made from a claims object, with the same
\* secret and algorithm, while the token is neither expired nor not yet
\* valid and the provider imports the key, returns the decoded claims
\* object of the token (decode(token)), not false.
C1_VerifyReturnsClaims ==
    ( /\ VerifyOfSigned
      /\ vf.c.secret = sg.c.secret
      /\ vf.c.options.algorithm = sg.c.options["algorithm"]
      /\ ~Expired(VerifyDecoded.val, vf.c.now)
      /\ ~NotYetValid(VerifyDecoded.val, vf.c.now)
      /\ vf.outcome # Thrown("importKey rejected") )
    => vf.outcome = Returned(VerifyDecoded.val)

\* The sign call has gone through its synchronous part on an object payload.
SignedObject == sg.pc # "idle" /\ sg.c.payload.kind = "obj"

SignConflict(claim, option) ==
    /\ SignedObject /\ validatePayload(sg.c.payload) = "none"
    /\ Has(sg.c.payload, claim) /\ OptSet(sg.c.options, option)

\* The sign call has handed a token to its caller or to the callback.
SignEmitsToken ==
    \/ sg.outcome.kind = "return"
    \/ \E i \in 1..Len(sg.callbacks) : sg.callbacks[i].value # Undef

\* C3: sign of a payload that has exp with expiresIn set, or nbf with
\* notBefore set, fails with the claim-conflict error and produces no
\* token, with or without a callback.
C3_ConflictNoToken ==
    \A pair \in {<<"exp", "expiresIn">>, <<"nbf", "notBefore">>} :
        SignConflict(pair[1], pair[2])
        => ( /\ sg.errs # <<>>
             /\ sg.errs[1] = "the payload already has " \o pair[1]
             /\ ~SignEmitsToken )

\* C4: verify of a token whose claims have a numeric exp at or before the
\* current time, or a numeric nbf after it, never returns a payload: it
\* throws or returns false.
C4_TemporalChecks ==
    ( /\ vf.pc = "done" /\ vf.c.token.kind = "tok" /\ JwsRegexTest(vf.c.token)
      /\ ~VerifyDecoded.thrown
      /\ Expired(VerifyDecoded.val, vf.c.now) \/ NotYetValid(VerifyDecoded.val, vf.c.now) )
    => (vf.outcome.kind = "return" => vf.outcome.val = Bool(FALSE))

\* The verify call has ended on a three-segment token string with a string
\* secret, a registered algorithm and no callback.
VerifyPlain ==
    /\ vf.pc = "done" /\ ~vf.c.cb
    /\ vf.c.token.kind = "tok" /\ Len(vf.c.token.props) = 3
    /\ TypeOf(vf.c.secret) = "string"
    /\ algorithms(vf.c.options.algorithm) # Undef

\* C5: for a token that decode reads, with throwError true and no callback
\* verify never returns false: a parse failure, a token not yet valid or
\* expired and a signature the provider reports as not matching are raised;
\* with throwError false they are reported by returning false and nothing
\* is raised.
C5_ThrowErrorToggle ==
    ( /\ VerifyPlain /\ ~VerifyDecoded.thrown /\ VerifyDecoded.val # Null
      /\ vf.outcome # Thrown("importKey rejected") )
    => IF Truthy(vf.c.options.throwError)
       THEN vf.outcome # Returned(Bool(FALSE))
       ELSE vf.outcome.kind = "return"

\* C6: when decode of the three-segment token returns null, verify returns
\* false under throwError false and raises ParseError under throwError true,
\* and raises nothing else.
C6_NullDecodeIsParseError ==
    ( VerifyPlain /\ ~VerifyDecoded.thrown /\ VerifyDecoded.val = Null )
    => IF Truthy(vf.c.options.throwError)
       THEN vf.outcome = Thrown("ParseError")
       ELSE vf.outcome = Returned(Bool(FALSE))

\* The arguments of the verify call fail a structural check: the token is
\* not a string or has not three parts, the secret is neither string nor
\* object, or options.algorithm is not a string.
VerifyStructuralError ==
    \/ TypeOf(vf.c.token) # "string"
    \/ vf.c.token.kind = "tok" /\ Len(vf.c.token.props) # 3
    \/ TypeOf(vf.c.secret) \notin {"string", "object"}
    \/ TypeOf(vf.c.options.algorithm) # "string"

\* C7: a verify call whose arguments fail a structural check fails at once,
\* for both values of throwError: it goes to no provider call and returns
\* neither false nor a payload.
C7_StructuralFailure ==
    ( vf.pc # "idle" /\ VerifyStructuralError )
    => vf.pc = "done" /\ vf.outcome.kind # "return"

\* C8: decode never raises; it returns null for a token outside the
\* three-segment grammar or with a header that is not JSON.
C8_DecodeNeverRaises ==
    dc.pc = "done"
    => ( /\ dc.outcome.kind = "return"
         /\ ( ( ~JwsRegexTest(dc.token) \/ ~JsonParse(dc.token.props[1].body).ok )
              => dc.outcome.val = Null ) )

\* The claims the options of the sign call inject, besides iat.
InjectedClaims ==
    { "nbf" : o \in {o \in {"notBefore"} : OptSet(sg.c.options, o)} }
    \cup { "exp" : o \in {o \in {"expiresIn"} : OptSet(sg.c.options, o)} }
    \cup { options_to_payload[i].claim :
             i \in {j \in 1..Len(options_to_payload) :
                      OptSet(sg.c.options, options_to_payload[j].option)} }

\* C9: for an object payload P and noTimestamp not set, decode of the token
\* sign returned is an object with every key of P at its value in P, with
\* iat and the claims injected from the options, and with no other key.
C9_RoundTrip ==
    ( /\ Signed /\ sg.errs = <<>> /\ sg.c.payload.kind = "obj"
      /\ ~Truthy(sg.c.options["noTimestamp"])
      /\ dc.pc = "done" /\ dc.token = sg.outcome.val )
    => ( /\ dc.outcome.kind = "return" /\ dc.outcome.val.kind = "obj"
         /\ \A k \in Keys :
              /\ ( Has(sg.c.payload, k)
                   => Get(dc.outcome.val, k) = Get(sg.c.payload, k) )
              /\ ( Has(dc.outcome.val, k)
                   => ( Has(sg.c.payload, k) \/ k \in InjectedClaims \cup {"iat"} ) )
         /\ \A k \in InjectedClaims \cup {"iat"} : Has(dc.outcome.val, k) )

\* The claim of the token is what the timespan option asks for, counted
\* from the iat of the same token.
TimespanClaimRight(claim, option) ==
    LET t == sg.c.options[option]
        iat == Get(TokenClaims, "iat")
    IN  CASE isNumber(t) -> Get(TokenClaims, claim) = Num(iat.num + t.num)
          [] isString(t) /\ Ms(t).val # Undef ->
               Get(TokenClaims, claim) = Num(iat.num + (Ms(t).val.num \div 1000))
          [] OTHER -> TRUE

\* The timespan options of the sign call for which the parser yields no value.
UnparsedTimespans ==
    { o \in {"notBefore", "expiresIn"} :
        isString(sg.c.options[o]) /\ Ms(sg.c.options[o]).val = Undef }

\* C10: in the token of an object payload, nbf = iat + notBefore and
\* exp = iat + expiresIn for numeric options and floor(iat + ms/1000) for
\* string timespans, iat being the claim of the same token; when the
\* timespan parser yields no value sign fails naming the option and emits
\* no token.
C10_TimespanClaims ==
    ( /\ SignedObject /\ validatePayload(sg.c.payload) = "none"
      /\ validateOptions(sg.c.options) = "none"
      /\ ~SignConflict("exp", "expiresIn") /\ ~SignConflict("nbf", "notBefore") )
    => ( /\ \A pair \in {<<"nbf", "notBefore">>, <<"exp", "expiresIn">>} :
              ( /\ OptSet(sg.c.options, pair[2])
                /\ sg.outcome.kind = "return"
                /\ isNumber(Get(TokenClaims, "iat")) )
              => TimespanClaimRight(pair[1], pair[2])
         /\ UnparsedTimespans # {}
            => ( /\ sg.errs # <<>>
                 /\ sg.errs[1] \in {"invalid timespan: " \o o : o \in UnparsedTimespans}
                 /\ ~SignEmitsToken ) )

\* The options of the sign call that apply to object payloads only and are set.
ObjectOnlyOptionsSet == {o \in options_for_objects : OptSet(sg.c.options, o)}

\* C11: sign of a string payload with any of expiresIn, notBefore,
\* noTimestamp, audience, issuer, subject, jwtid set fails and produces no
\* token; a string payload that is signed is the text of the payload segment,
\* with no claim injected.
C11_StringPayload ==
    ( sg.pc # "idle" /\ TypeOf(sg.c.payload) = "string" )
    => ( /\ ( ObjectOnlyOptionsSet # {} => ( sg.errs # <<>> /\ ~SignEmitsToken ) )
         /\ ( ( sg.outcome.kind = "return" /\ sg.errs = <<>> )
              => TokenClaims = sg.c.payload ) )

\* The header in the header segment of the token the sign call built.
TokenHeader == JsonParse(sg.partial[1].body).val

\* C12: in every token sign produces for options it accepts, a header
\* override included, the header has an alg and it is a supported algorithm
\* name or "none".
C12_HeaderAlg ==
    ( Signed /\ sg.errs = <<>> )
    => ( /\ Has(TokenHeader, "alg")
         /\ Get(TokenHeader, "alg").kind = "str"
         /\ Get(TokenHeader, "alg").str \in SUPPORTED_ALGS )

\* The sign call is on an object payload, and nothing before the loop over
\* options_to_payload fails: payload and options are valid, exp and nbf do
\* not conflict and the timespans parse.
SignReachesClaimOptions ==
    /\ SignedObject /\ validatePayload(sg.c.payload) = "none"
    /\ validateOptions(sg.c.options) = "none"
    /\ ~SignConflict("exp", "expiresIn") /\ ~SignConflict("nbf", "notBefore")
    /\ UnparsedTimespans = {}

\* C13: for audience/aud, issuer/iss, subject/sub and jwtid/jti, when the
\* option is set and the payload has the claim, sign fails with the
\* claim-conflict error, produces no token and leaves the claim as it was;
\* when the option is set and the claim is absent, the claim of the token is
\* the value of the option.
C13_ClaimOptions ==
    SignReachesClaimOptions =>
        \A i \in 1..Len(options_to_payload) :
            LET option == options_to_payload[i].option
                claim == options_to_payload[i].claim
            IN  OptSet(sg.c.options, option) =>
                    IF Has(sg.c.payload, claim)
                    THEN /\ \E j \in 1..Len(sg.errs) :
                              sg.errs[j] = "the payload already has " \o claim
                         /\ ~SignEmitsToken
                         /\ Get(sg.payload, claim) = Get(sg.c.payload, claim)
                    ELSE ( sg.outcome.kind = "return" /\ sg.errs = <<>> )
                         => Get(TokenClaims, claim) = sg.c.options[option]

\* The errors validatePayload raises for the payloads of the model.
PayloadValidationErrors == {"invalid value: " \o k : k \in {"iat", "exp", "nbf"}}

\* C14: sign rejects an options object with a key outside the schema or a
\* known key whose value fails its predicate, and an object payload whose
\* iat, exp or nbf is not a number: a failure is reported and no token is
\* produced; keys of the payload outside the registered claims are accepted.
C14_Validation ==
    ( sg.pc # "idle" /\ TypeOf(sg.c.payload) # "undefined" )
    => ( /\ ( ( \/ validateOptions(sg.c.options) # "none"
                \/ ( sg.c.payload.kind = "obj"
                     /\ validatePayload(sg.c.payload) # "none" ) )
              => ( sg.errs # <<>> /\ ~SignEmitsToken ) )
         /\ ( ( sg.c.payload.kind = "obj"
                /\ \A k \in {"iat", "exp", "nbf"} :
                     Has(sg.c.payload, k) => isNumber(Get(sg.c.payload, k)) )
              => \A j \in 1..Len(sg.errs) : sg.errs[j] \notin PayloadValidationErrors ) )

\* decode has returned something other than null for its token.
DecodeAccepted ==
    dc.pc = "done" /\ dc.outcome.kind = "return" /\ dc.outcome.val # Null

\* C15: decode accepts only a token of exactly three segments of characters
\* of [A-Za-z0-9-_], the signature segment being empty only when the alg of
\* the header is "none"; it returns null for an empty third segment under
\* any other alg.
C15_TokenGrammar ==
    ( DecodeAccepted /\ dc.token.kind = "tok" )
    => ( /\ Len(dc.token.props) = 3
         /\ \A i \in 1..2 : dc.token.props[i].lex \in {"ok", "badlen"}
         /\ dc.token.props[3].lex \in {"ok", "badlen", "empty"}
         /\ ( dc.token.props[3].lex = "empty"
              => Get(headerFromJWS(dc.token), "alg") = Str("none") ) )

\* The structural errors of verify (decode.ts 89-116).
VerifyStructuralErrors ==
    {"AuthTokenInvalidError", "secret must be a string or a JWK object",
     "options.algorithm must be a string", "token must consist of 3 parts",
     "algorithm not found"}

\* C16: in a sign or verify call that has reported a validation or
\* structural failure no provider call (importKey, sign, verify) is made,
\* with or without a callback.
C16_NoProviderAfterFailure ==
    /\ sg.errs # <<>> => sg.provider = <<>>
    /\ ( \E j \in 1..Len(vf.errs) : vf.errs[j] \in VerifyStructuralErrors )
       => vf.provider = <<>>

\* C17: a verify call hands at most one error to failure(), and with a
\* callback a failing call invokes the callback exactly once, with the error
\* as its error argument and no value.
C17_VerifyFailureOnce ==
    vf.pc = "done"
    => ( /\ Len(vf.errs) <= 1
         /\ ( ( vf.c.cb /\ vf.errs # <<>> )
              => vf.callbacks = << [err |-> Str(vf.errs[1]), value |-> Undef] >> ) )

\* C18: a sign call with a callback invokes it exactly once, with an error
\* and no token or with (null, token); after a failure was reported to the
\* callback no token is reported to it and the call does not resolve with a
\* token.
C18_SignCallbackOnce ==
    ( sg.pc = "done" /\ sg.c.cb )
    => ( /\ Len(sg.callbacks) = 1
         /\ ( sg.callbacks[1].err = Null \/ sg.callbacks[1].value = Undef )
         /\ ( sg.errs # <<>> => ~SignEmitsToken ) )

\* The timestamp the claims of the token were derived from, read back from
\* the token: base is the iat of the payload or the time of the call.
TimestampIs(base) ==
    /\ ( ~Truthy(sg.c.options["noTimestamp"]) => Get(TokenClaims, "iat") = base )
    /\ ( isNumber(sg.c.options["notBefore"])
         => Get(TokenClaims, "nbf") = Num(base.num + sg.c.options["notBefore"].num) )
    /\ ( isNumber(sg.c.options["expiresIn"])
         => Get(TokenClaims, "exp") = Num(base.num + sg.c.options["expiresIn"].num) )

\* C19: when the object payload has an iat claim, any number and 0 included,
\* the timestamp nbf and exp are derived from and that is written back as
\* iat is that payload.iat; the current time is used only when the payload
\* has no iat.
C19_PayloadIat ==
    ( SignReachesClaimOptions /\ sg.outcome.kind = "return" /\ sg.errs = <<>> )
    => IF Has(sg.c.payload, "iat")
       THEN TimestampIs(Get(sg.c.payload, "iat"))
       ELSE TimestampIs(Num(sg.c.now))

\* nbf and exp of the token are the numeric notBefore and expiresIn of the
\* call counted from base.
TimespansFrom(base) ==
    \A pair \in {<<"nbf", "notBefore">>, <<"exp", "expiresIn">>} :
        isNumber(sg.c.options[pair[2]])
        => Get(TokenClaims, pair[1]) = Num(base.num + sg.c.options[pair[2]].num)

\* C20: for an object payload, the payload of the signed token has no iat
\* when options.noTimestamp is true, a caller-supplied iat being removed
\* while nbf and exp are still derived from it, and has iat equal to the
\* computed timestamp when noTimestamp is false or unset.
C20_NoTimestamp ==
    ( SignReachesClaimOptions /\ sg.outcome.kind = "return" /\ sg.errs = <<>> )
    => LET iat == Get(sg.c.payload, "iat")
       IN  /\ ( sg.c.options["noTimestamp"] = Bool(TRUE)
                => ( /\ ~Has(TokenClaims, "iat")
                     /\ ( Has(sg.c.payload, "iat") => TimespansFrom(iat) ) ) )
           /\ ( sg.c.options["noTimestamp"] \in {Absent, Bool(FALSE)}
                => Get(TokenClaims, "iat") = IF Truthy(iat) THEN iat ELSE Num(sg.c.now) )

\* The verify call has ended with a value other than false: the token is
\* accepted.
VerifyAccepted ==
    vf.pc = "done" /\ vf.outcome.kind = "return" /\ vf.outcome.val # Bool(FALSE)

\* The alg named by the header of the token handed to the verify call.
VerifyTokenAlg == Get(headerFromJWS(vf.c.token), "alg")

\* The provider's verify, asked with the algorithm of options.algorithm
\* about the signature and the first two segments of the token, says true.
VerifiedUnderOptions ==
    /\ ~base64UrlParse(vf.c.token.props[3]).thrown
    /\ ProviderVerify(algorithms(vf.c.options.algorithm), vf.c.secret,
                      base64UrlParse(vf.c.token.props[3]).val,
                      <<vf.c.token.props[1], vf.c.token.props[2]>>)

\* C22: verify takes the signature algorithm from options.algorithm (HS256
\* by default) and never from the header of the token: whenever the provider
\* is called it is called with the algorithm of options.algorithm, also
\* when the alg of the header differs or is "none", and a token is accepted
\* only after a provider verify call that returned true.
C22_AlgorithmFromOptions ==
    /\ ( vf.pc # "idle" => vf.algorithm = algorithms(vf.c.options.algorithm) )
    /\ ( VerifyAccepted
         => ( /\ vf.provider = <<"importKey", "verify">>
              /\ VerifiedUnderOptions ) )

\* A token whose header names "none" is accepted under the HS384 of the
\* options, by the provider's verify.
C22_Witness ==
    /\ VerifyAccepted
    /\ VerifyTokenAlg = Str("none")
    /\ vf.c.options.algorithm = Str("HS384")
    /\ vf.provider = <<"importKey", "verify">>

\* The outcomes a sign call with inputs c has when it runs alone, from its
\* start to its end with no other call in between: it throws in its
\* synchronous part, importKey rejects, or it returns the token of the
\* payload its synchronous part leaves.
SignAloneOutcomes(c) ==
    LET st == SignSync(c)
        partial == SignPartialToken(st, c)
        algorithm == algorithms(c.options["algorithm"])
    IN  IF st.thrown # "none" THEN {Thrown(st.thrown)}
        ELSE {Thrown("importKey rejected")} \cup
             ( IF algorithm = Undef THEN {}
               ELSE {Returned(Token(partial \o
                        << base64UrlStringify(ProviderSign(algorithm, c.secret, partial)) >>))} )

\* The outcomes a verify call with inputs c has when it runs alone.
VerifyAloneOutcomes(c) ==
    LET st == VerifySync(c)
    IN  IF st.thrown # "none" THEN {Thrown(st.thrown)}
        ELSE IF st.returned # Absent THEN {Returned(st.returned)}
        ELSE {Thrown("importKey rejected"), Thrown("InvalidCharacterError"),
              Returned(Bool(FALSE)), Returned(st.payload)}

\* The caller's object as the serial run of the calls made so far leaves it:
\* the first call from start to end, then the second.
SerialObject ==
    IF sg.pc = "idle" THEN Undef
    ELSE IF sg2.pc = "idle" THEN SignSync(sg.c).caller
    ELSE SignSync([sg2.c EXCEPT !.payload = SignSync(sg.c).caller]).caller

\* C21: concurrent sign and verify calls do not interfere.  All a sign call
\* reads and writes of the payload object it does before its first
\* suspension (importKey), so whatever the order in which the provider
\* calls of two sign calls on one object and of a verify call resolve, each
\* call ends as it does in the serial run (first call, then second), the
\* object is left as the serial run leaves it, and with mutatePayload unset
\* in both calls the shared object is never written.
C21_NoInterference ==
    /\ ( sg.pc = "done" => sg.outcome \in SignAloneOutcomes(sg.c) )
    /\ ( sg2.pc # "idle" => sg2.c.payload = SignSync(sg.c).caller )
    /\ ( sg2.pc = "done" => sg2.outcome \in SignAloneOutcomes(sg2.c) )
    /\ ( vf.pc = "done" => vf.outcome \in VerifyAloneOutcomes(vf.c) )
    /\ caller = SerialObject
    /\ ( ( /\ sg.pc # "idle" /\ ~Truthy(sg.c.options["mutatePayload"])
           /\ ~Truthy(sg2.c.options["mutatePayload"]) )
         => caller = sg.c.payload )

\* The second call, which writes the shared object, has returned its token
\* while the first is still suspended in the provider's sign.
C21_Witness ==
    /\ sg.pc = "sign"
    /\ sg2.pc = "done" /\ sg2.outcome.kind = "return"
    /\ Truthy(sg.c.options["mutatePayload"])
    /\ Truthy(sg2.c.options["mutatePayload"])
    /\ caller # sg.payload

\* The options that inject a claim, with the claim each injects.
ClaimInjectors ==
    { [option |-> "expiresIn", claim |-> "exp"], [option |-> "notBefore", claim |-> "nbf"] }
    \cup { options_to_payload[i] : i \in 1..Len(options_to_payload) }

\* The injecting options the first call set and the second call sets again.
Reinjected ==
    { x \in ClaimInjectors :
        OptSet(sg.c.options, x.option) /\ OptSet(sg2.c.options, x.option) }

\* A sign call with mutatePayload true, expiresIn set and no callback has
\* returned its token, and later a second call on the same object, with
\* mutatePayload true and no callback, has gone through its synchronous
\* part.
SignedTwice ==
    /\ Signed /\ ~sg.c.cb /\ sg.c.payload.kind = "obj"
    /\ sg.c.options["mutatePayload"] = Bool(TRUE)
    /\ OptSet(sg.c.options, "expiresIn")
    /\ sg2.pc # "idle" /\ ~sg2.c.cb
    /\ sg2.c.options["mutatePayload"] = Bool(TRUE)
    /\ sg2.c.now > sg.c.now

\* C23: with mutatePayload true and no callback, after a successful
\* sign(P, S, {mutatePayload: true, expiresIn: e}) a second sign of P that
\* sets expiresIn, or one of notBefore, audience, issuer, subject, jwtid that
\* the first call injected, fails with the claim-conflict error and leaves
\* exp, nbf and iat of P at the values the first call wrote; a second sign of
\* P that sets none of those options succeeds and reuses the iat the first
\* call wrote.
C23_SecondSign ==
    SignedTwice =>
        /\ ( Reinjected # {}
             => ( /\ sg2.outcome.kind = "throw"
                  /\ sg2.outcome.val \in
                        { Str("the payload already has " \o x.claim) : x \in Reinjected }
                  /\ \A k \in {"exp", "nbf", "iat"} :
                        caller.props[k] = sg.payload.props[k] ) )
        /\ ( ( /\ \A x \in ClaimInjectors : ~OptSet(sg2.c.options, x.option)
               /\ ~OptSet(sg2.c.options, "noTimestamp") )
             => ( /\ sg2.errs = <<>>
                  /\ sg2.outcome.kind # "throw" \/ sg2.outcome = Thrown("importKey rejected")
                  /\ Get(JsonParse(sg2.partial[2].body).val, "iat") = Get(sg.payload, "iat")
                  /\ Get(caller, "iat") = Get(sg.payload, "iat") ) )

====
